---- MODULE Spec2Model ----
(***************************************************************************)
(* The task service of FastAPI_ToDoApp/app/main.py: one SQLite table of    *)
(* Task rows behind six route handlers.                                    *)
(*                                                                         *)
(* A nullable value (a Python Optional, a JSON null, an SQL NULL) is a     *)
(* sequence: <<>> is None/NULL and <<v>> is the value v.  A JSON key of a  *)
(* request body is a record [given, val]: given = FALSE is a key the body  *)
(* does not carry.  A date is a day number.                                *)
(*                                                                         *)
(* Four specifications share the handlers:                                 *)
(*   Spec      one client, one request at a time, every kind of body;      *)
(*   SpecIds   the same with the history of the ids handed out and deleted;*)
(*   SpecList  a client that fills the table past one page and lists it;   *)
(*   SpecPut   two PUT requests running in two sessions at once.           *)
(***************************************************************************)
EXTENDS Integers, Sequences, FiniteSets, TLC

\* ---------------------------------------------------------------- bounds
\* The largest rowid the clients of Spec and SpecIds let the table reach.
MaxId == 2

Titles == {"a", "b"}
Dates == {1, 2}
Clock == {2}
Ids == 1..MaxId
Workers == {1, 2}

\* Query(le=20), and the HTTPException status of the four by-id handlers.
MaxLimit == 20
NotFound == 404

Offsets == {-1, 0, 1}
Limits == {-1, 0, 1, MaxLimit, MaxLimit + 1}
Statuses == {<<>>, <<TRUE>>, <<FALSE>>}

\* Enough rows to overfill one page of the listing.
MaxFill == MaxLimit + 2

VARIABLES
  tasks,    \* the task table: a set of rows
  prev,     \* history: the table as the last request found it
  req,      \* history: the last request
  resp,     \* the last response: [status, body], body a sequence of rows
  created,  \* history (SpecIds): the ids a create has returned
  deleted,  \* history (SpecIds): the ids a delete has removed
  gone,     \* history (SpecIds): the ids whose latest create/delete was a delete
  pc,       \* SpecPut: each worker's position in update_task
  sess,     \* SpecPut: each worker's request and session state
  commits   \* SpecPut: the workers in the order they committed

vars == <<tasks, prev, req, resp, created, deleted, gone, pc, sess, commits>>

\* ------------------------------------------------------------ JSON input
None == <<>>
Some(v) == <<v>>
Absent == [given |-> FALSE, val |-> None]
Null == [given |-> TRUE, val |-> None]
Given(v) == [given |-> TRUE, val |-> Some(v)]

\* What a client can put under one key: nothing, null or a value.  For a key
\* whose model field refuses null as it refuses a missing key, null is left
\* out.
InputField(Vals) == {Absent, Null} \cup {Given(v) : v \in Vals}
StrictField(Vals) == {Absent} \cup {Given(v) : v \in Vals}

\* The bodies a client sends to POST /tasks/.
CreateBodies == [title : StrictField(Titles), completed : InputField(BOOLEAN),
                 created_at : InputField(Dates)]

\* The bodies a client sends to PUT and PATCH.
UpdateBodies == [title : StrictField(Titles), completed : StrictField(BOOLEAN),
                 created_at : {Absent}]

NoBody == [title |-> Absent, completed |-> Absent, created_at |-> Absent]

\* ------------------------------------------------------- request models
\* class TaskCreate: title is required and a str; completed and created_at
\* are Optional, so null passes; a missing key takes the declared default.
TaskCreateValid(b) == b.title.given /\ b.title.val # None

TaskCreate(b) ==
  [title |-> b.title.val,
   completed |-> IF b.completed.given THEN b.completed.val ELSE Some(FALSE),
   created_at |-> IF b.created_at.given THEN b.created_at.val ELSE None]

\* class UpdateTask: both fields are required and neither is Optional.
UpdateTaskValid(b) ==
  /\ b.title.given /\ b.title.val # None
  /\ b.completed.given /\ b.completed.val # None

UpdateTask(b) == [title |-> b.title.val, completed |-> b.completed.val]

\* ------------------------------------------------------------ class Task
\* Required, had Task declared completed and created_at Optional the way
\* TaskCreate does.
RequiredOnlyTitle(f) == f = "title"

\* The fields of Task that are not Optional: validation refuses None for
\* them and their columns are NOT NULL.
Required(f) == f \in {"title", "completed", "created_at"}

TaskFields == {"id", "title", "completed", "created_at"}

\* A field's default: id None, completed False, created_at date.today().
Default(f, now) ==
  CASE f = "completed" -> Some(FALSE)
    [] f = "created_at" -> Some(now)
    [] OTHER -> None

\* Task.from_orm(obj): every field is read off obj when obj has the
\* attribute (a None attribute is read as None), else takes its default;
\* the values are then validated.
FromOrm(obj, now) ==
  [f \in TaskFields |-> IF f \in DOMAIN obj THEN obj[f] ELSE Default(f, now)]

TaskValid(t) == \A f \in TaskFields : Required(f) => t[f] # None

\* ------------------------------------------------------------- the table
Row(id, t) ==
  [id |-> id, title |-> t.title[1], completed |-> t.completed,
   created_at |-> t.created_at]

RowIds(T) == {r.id : r \in T}

SetMax(S) == CHOOSE m \in S : \A x \in S : x <= m

\* The rowid SQLite gives an INSERT that names none: one more than the
\* largest in the table, 1 in an empty table.
NextRowid(T) == IF T = {} THEN 1 ELSE SetMax(RowIds(T)) + 1

\* The NOT NULL constraints of the INSERT.
InsertOk(t) == \A f \in {"title", "completed", "created_at"} : Required(f) => t[f] # None

\* Insert, had the handler not committed.
InsertUncommitted(T, row) == T

\* session.add(db_task); session.commit(): the row is in the table.
Insert(T, row) == T \cup {row}

\* SelectById, had the select no where clause.
SelectByIdNoWhere(T, id) == IF T = {} THEN <<>> ELSE <<CHOOSE r \in T : TRUE>>

\* select(Task).where(Task.id == task_id) ... .first(): a sequence of no
\* row or one.
SelectById(T, id) ==
  IF \E r \in T : r.id = id THEN <<CHOOSE r \in T : r.id = id>> ELSE <<>>

\* The columns the unit of work writes: those whose attribute differs from
\* the value the session loaded.
Dirty(loaded, obj) == {f \in {"title", "completed"} : obj[f] # loaded[f]}

\* Flush, had the UPDATE named no row.
FlushNoWhere(T, loaded, obj) ==
  {[r EXCEPT !.title = obj.title, !.completed = obj.completed] : r \in T}

\* session.commit() of a loaded object: UPDATE task SET <the dirty
\* columns> WHERE id = <the loaded id>.
Flush(T, loaded, obj) ==
  {IF r.id = loaded.id
     THEN [r EXCEPT !.title = IF "title" \in Dirty(loaded, obj) THEN obj.title ELSE @,
                    !.completed = IF "completed" \in Dirty(loaded, obj)
                                    THEN obj.completed ELSE @]
     ELSE r : r \in T}

\* DeleteRow, had the handler not committed the delete.
DeleteRowKept(T, id) == T

\* session.delete(task); session.commit()
DeleteRow(T, id) == {r \in T : r.id # id}

\* --------------------------------------------------------------- replies
Reply(status, body) == [status |-> status, body |-> body]

Request(op, id, body, sent, now, offset, limit, status) ==
  [op |-> op, id |-> id, body |-> body, sent |-> sent, now |-> now,
   offset |-> offset, limit |-> limit, status |-> status]

NoRequest == Request("none", 0, NoBody, FALSE, 0, 0, 0, None)

\* session.get(Task, task_id) and session.refresh(task): SELECTs by
\* primary key.
SessionGet(T, id) == SelectById(T, id)

Refresh(T, task) == SelectById(T, task.id)

\* ------------------------------------------------------------- handlers
\* POST /tasks/
create_task(b, now) ==
  /\ prev' = tasks
  /\ req' = Request("create", 0, b, TRUE, now, 0, 0, None)
  /\ IF ~TaskCreateValid(b)
       THEN resp' = Reply(422, <<>>) /\ UNCHANGED tasks
       ELSE LET db_task == FromOrm(TaskCreate(b), now)
                id == NextRowid(tasks)
            IN  IF ~TaskValid(db_task) \/ ~InsertOk(db_task)
                  THEN resp' = Reply(500, <<>>) /\ UNCHANGED tasks
                  ELSE /\ tasks' = Insert(tasks, Row(id, db_task))
                       /\ resp' = Reply(200, Refresh(tasks', Row(id, db_task)))

\* GET /tasks/{task_id}
GetReply(T, task_id) ==
  LET task == SelectById(T, task_id)
  IN  IF task = <<>> THEN Reply(NotFound, <<>>) ELSE Reply(200, task)

get_task(task_id) ==
  /\ prev' = tasks
  /\ req' = Request("get", task_id, NoBody, FALSE, 0, 0, 0, None)
  /\ UNCHANGED tasks
  /\ resp' = GetReply(tasks, task_id)

\* PUT /tasks/{task_id}
update_task(task_id, b) ==
  /\ prev' = tasks
  /\ req' = Request("put", task_id, b, TRUE, 0, 0, 0, None)
  /\ IF ~UpdateTaskValid(b)
       THEN resp' = Reply(422, <<>>) /\ UNCHANGED tasks
       ELSE LET task == SessionGet(tasks, task_id)
            IN  IF task = <<>>
                  THEN resp' = Reply(NotFound, <<>>) /\ UNCHANGED tasks
                  ELSE LET updated_task == UpdateTask(b)
                           obj == [task[1] EXCEPT !.title = updated_task.title[1],
                                                  !.completed = updated_task.completed]
                       IN  /\ tasks' = Flush(tasks, task[1], obj)
                           /\ resp' = Reply(200, Refresh(tasks', obj))

\* PATCH /tasks/{task_id}; sent = FALSE is a request with no body, which
\* leaves updated_task None.
partial_update(task_id, sent, b) ==
  /\ prev' = tasks
  /\ req' = Request("patch", task_id, b, sent, 0, 0, 0, None)
  /\ IF sent /\ ~UpdateTaskValid(b)
       THEN resp' = Reply(422, <<>>) /\ UNCHANGED tasks
       ELSE LET task == SessionGet(tasks, task_id)
            IN  IF task = <<>>
                  THEN resp' = Reply(NotFound, <<>>) /\ UNCHANGED tasks
                  ELSE IF ~sent
                    THEN resp' = Reply(500, <<>>) /\ UNCHANGED tasks
                    ELSE LET updated_task == UpdateTask(b)
                             t1 == IF updated_task.title # None
                                     THEN [task[1] EXCEPT !.title = updated_task.title[1]]
                                     ELSE task[1]
                             obj == IF updated_task.completed # None
                                      THEN [t1 EXCEPT !.completed = updated_task.completed]
                                      ELSE t1
                         IN  /\ tasks' = Flush(tasks, task[1], obj)
                             /\ resp' = Reply(200, Refresh(tasks', obj))

\* DELETE /tasks/{task_id}
delete_task(task_id) ==
  /\ prev' = tasks
  /\ req' = Request("delete", task_id, NoBody, FALSE, 0, 0, 0, None)
  /\ LET task == SelectById(tasks, task_id)
     IN  IF task = <<>>
           THEN resp' = Reply(NotFound, <<>>) /\ UNCHANGED tasks
           ELSE /\ tasks' = DeleteRow(tasks, task[1].id)
                /\ resp' = Reply(200, <<>>)

\* ------------------------------------------------------------ GET /tasks
RECURSIVE Perms(_)
Perms(S) ==
  IF S = {} THEN {<<>>}
  ELSE UNION {{<<x>> \o p : p \in Perms(S \ {x})} : x \in S}

\* The sort key of ORDER BY created_at: NULLs sort first.
DateKey(r) == IF r.created_at = None THEN 0 ELSE r.created_at[1]

\* query.where(Task.completed == True) / (Task.completed == False)
Where(T, status) ==
  IF status = Some(TRUE) THEN {r \in T : r.completed = Some(TRUE)}
  ELSE IF status = Some(FALSE) THEN {r \in T : r.completed = Some(FALSE)}
  ELSE T

\* ORDER BY created_at: every arrangement in non-decreasing created_at;
\* the order of rows with equal dates is the engine's choice.
RECURSIVE OrderBy(_)
OrderBy(S) ==
  IF S = {} THEN {<<>>}
  ELSE LET m == CHOOSE k \in {DateKey(r) : r \in S} : \A r \in S : k <= DateKey(r)
           M == {r \in S : DateKey(r) = m}
       IN  {p \o q : p \in Perms(M), q \in OrderBy(S \ M)}

\* LIMIT limit OFFSET offset in SQLite: a negative OFFSET skips nothing and
\* a negative LIMIT is no limit.
OffsetLimit(s, offset, limit) ==
  LET o == IF offset < 0 THEN 0 ELSE offset
      rest == SubSeq(s, o + 1, Len(s))
  IN  IF limit < 0 \/ limit >= Len(rest) THEN rest ELSE SubSeq(rest, 1, limit)

\* Query(le=20)
LimitValid(limit) == limit <= MaxLimit

get_tasks(offset, limit, status) ==
  /\ prev' = tasks
  /\ req' = Request("list", 0, NoBody, FALSE, 0, offset, limit, status)
  /\ UNCHANGED tasks
  /\ IF ~LimitValid(limit)
       THEN resp' = Reply(422, <<>>)
       ELSE \E ordered \in OrderBy(Where(tasks, status)) :
              resp' = Reply(200, OffsetLimit(ordered, offset, limit))

\* ------------------------------------------------- the sequential service
NoSession == [id |-> 0, title |-> "a", completed |-> FALSE, loaded |-> <<>>,
              status |-> 0, body |-> <<>>]

Init ==
  /\ tasks = {}
  /\ prev = {}
  /\ req = NoRequest
  /\ resp = Reply(0, <<>>)
  /\ created = {}
  /\ deleted = {}
  /\ gone = {}
  /\ pc = [w \in Workers |-> "idle"]
  /\ sess = [w \in Workers |-> NoSession]
  /\ commits = <<>>

NoHistory == UNCHANGED <<created, deleted, gone>>
OneSession == UNCHANGED <<pc, sess, commits>>

Create == \E b \in CreateBodies, now \in Clock :
            /\ NextRowid(tasks) <= MaxId
            /\ create_task(b, now)
            /\ NoHistory /\ OneSession
Get == \E id \in Ids : get_task(id) /\ NoHistory /\ OneSession
Put == \E id \in Ids, b \in UpdateBodies :
         update_task(id, b) /\ NoHistory /\ OneSession
Patch == \E id \in Ids, b \in UpdateBodies :
           partial_update(id, TRUE, b) /\ NoHistory /\ OneSession
PatchNoBody == \E id \in Ids :
                 partial_update(id, FALSE, NoBody) /\ NoHistory /\ OneSession
Delete == \E id \in Ids : delete_task(id) /\ NoHistory /\ OneSession

Next == Create \/ Get \/ Put \/ Patch \/ PatchNoBody \/ Delete

Spec == Init /\ [][Next]_vars

\* ------------------------------------------------ the history of the ids
\* One client again, with few bodies, and the record of which ids a create
\* has returned and which a delete has removed.
IdsCreateBodies ==
  {[title |-> Given(t), completed |-> Absent, created_at |-> Given(1)] : t \in Titles}
IdsUpdateBodies ==
  {[title |-> Given("b"), completed |-> Given(TRUE), created_at |-> Absent]}

Returned == IF resp'.status = 200 THEN {resp'.body[1].id} ELSE {}
Removed(id) == IF resp'.status = 200 THEN {id} ELSE {}

CreateH == \E b \in IdsCreateBodies, now \in Clock :
             /\ NextRowid(tasks) <= MaxId
             /\ create_task(b, now)
             /\ created' = created \cup Returned
             /\ gone' = gone \ Returned
             /\ UNCHANGED deleted /\ OneSession
DeleteH == \E id \in Ids :
             /\ delete_task(id)
             /\ deleted' = deleted \cup Removed(id)
             /\ gone' = gone \cup Removed(id)
             /\ UNCHANGED created /\ OneSession
PutH == \E id \in Ids, b \in IdsUpdateBodies :
          update_task(id, b) /\ NoHistory /\ OneSession
PatchH == \E id \in Ids, b \in IdsUpdateBodies :
            partial_update(id, TRUE, b) /\ NoHistory /\ OneSession

NextIds == CreateH \/ DeleteH \/ PutH \/ PatchH \/ Get

SpecIds == Init /\ [][NextIds]_vars

\* ------------------------------------------------------ filling a page
\* A client that creates one task after another, the first two dated day 1
\* and each later one a day on, alternately completed, and lists the table
\* in between.
DailyBody(n) ==
  [title |-> Given("a"), completed |-> Given(n % 2 = 1),
   created_at |-> Given(IF n = 0 THEN 1 ELSE n)]

CreateDaily == \E now \in Clock :
                 /\ NextRowid(tasks) <= MaxFill
                 /\ create_task(DailyBody(Cardinality(tasks)), now)
                 /\ NoHistory /\ OneSession
List == \E offset \in Offsets, limit \in Limits, status \in Statuses :
          get_tasks(offset, limit, status) /\ NoHistory /\ OneSession

NextList == CreateDaily \/ List

SpecList == Init /\ [][NextList]_vars

\* ------------------------------------------------- two PUTs at the same time
\* Each handler runs in a thread of the pool with a session of its own
\* (get_session). A worker goes idle -> loaded -> committed -> done; the
\* table starts with the one row an earlier create left.
PutBodies == {b \in UpdateBodies : UpdateTaskValid(b)}

SeedRows == {[id |-> 1, title |-> t, completed |-> Some(c), created_at |-> Some(1)] :
               t \in Titles, c \in BOOLEAN}

InitPut ==
  /\ tasks \in {{r} : r \in SeedRows}
  /\ prev = {}
  /\ req = NoRequest
  /\ resp = Reply(0, <<>>)
  /\ created = {1}
  /\ deleted = {}
  /\ gone = {}
  /\ pc = [w \in Workers |-> "idle"]
  /\ sess = [w \in Workers |-> NoSession]
  /\ commits = <<>>

Quiet == UNCHANGED <<prev, req, resp, created, deleted, gone>>

\* The object the handler holds after its two assignments.
Assigned(s) == [s.loaded[1] EXCEPT !.title = s.title, !.completed = Some(s.completed)]

\* task = session.get(Task, task_id); if not task: raise 404
PutLoad(w, task_id, b) ==
  /\ pc[w] = "idle"
  /\ LET task == SessionGet(tasks, task_id)
         mine == [NoSession EXCEPT !.id = task_id, !.title = UpdateTask(b).title[1],
                                   !.completed = UpdateTask(b).completed[1]]
     IN  IF task = <<>>
           THEN /\ sess' = [sess EXCEPT ![w] = [mine EXCEPT !.status = NotFound]]
                /\ pc' = [pc EXCEPT ![w] = "done"]
           ELSE /\ sess' = [sess EXCEPT ![w] = [mine EXCEPT !.loaded = task]]
                /\ pc' = [pc EXCEPT ![w] = "loaded"]
  /\ UNCHANGED <<tasks, commits>>
  /\ Quiet

\* task.title = ...; task.completed = ...; session.add(task); session.commit()
PutCommit(w) ==
  /\ pc[w] = "loaded"
  /\ tasks' = Flush(tasks, sess[w].loaded[1], Assigned(sess[w]))
  /\ commits' = Append(commits, w)
  /\ pc' = [pc EXCEPT ![w] = "committed"]
  /\ UNCHANGED sess
  /\ Quiet

\* session.refresh(task); return task
PutRefresh(w) ==
  /\ pc[w] = "committed"
  /\ sess' = [sess EXCEPT ![w].status = 200,
                          ![w].body = Refresh(tasks, Assigned(sess[w]))]
  /\ pc' = [pc EXCEPT ![w] = "done"]
  /\ UNCHANGED <<tasks, commits>>
  /\ Quiet

NextPut ==
  \/ \E w \in Workers, id \in Ids, b \in PutBodies : PutLoad(w, id, b)
  \/ \E w \in Workers : PutCommit(w)
  \/ \E w \in Workers : PutRefresh(w)

SpecPut == InitPut /\ [][NextPut]_vars

\* ------------------------------------------------- properties under Spec
TheRow(T, id) == CHOOSE r \in T : r.id = id
Others(T, id) == {r \in T : r.id # id}

\* C2 (as claimed): a PATCH of an existing task whose body carries only
\* completed succeeds, stores that completed and keeps the title.
C2_PatchOnlyCompleted ==
  (/\ req.op = "patch" /\ req.sent
   /\ req.id \in RowIds(prev)
   /\ ~req.body.title.given
   /\ req.body.completed.given /\ req.body.completed.val # None)
  => /\ resp.status = 200
     /\ req.id \in RowIds(tasks)
     /\ TheRow(tasks, req.id).completed = req.body.completed.val
     /\ TheRow(tasks, req.id).title = TheRow(prev, req.id).title

\* C3: whatever bodies POST /tasks/ was sent, null completed and null
\* created_at among them, no two rows of the table share an id, every
\* row's completed is true or false and every row's created_at is set.
C3_RowsWellFormed ==
  /\ \A r, q \in tasks : r.id = q.id => r = q
  /\ \A r \in tasks : /\ r.completed \in {Some(TRUE), Some(FALSE)}
                      /\ r.created_at # None

C3_Witness ==
  /\ tasks # {}
  /\ req.op = "create"
  /\ resp.status # 422
  /\ Null \in {req.body.completed, req.body.created_at}

\* C4 (as claimed): a POST whose body carries only title answers 200 with
\* a task that has completed false, created_at today and a positive id no
\* row held, and the table gains exactly that row.
C4_CreateTitleOnly ==
  (/\ req.op = "create"
   /\ req.body.title.given
   /\ ~req.body.completed.given
   /\ ~req.body.created_at.given)
  => /\ resp.status = 200
     /\ Len(resp.body) = 1
     /\ resp.body[1].completed = Some(FALSE)
     /\ resp.body[1].created_at = Some(req.now)
     /\ resp.body[1].id > 0
     /\ resp.body[1].id \notin RowIds(prev)
     /\ tasks = prev \cup {resp.body[1]}
     /\ Cardinality(tasks) = Cardinality(prev) + 1

\* C5: a PUT with a valid body on an existing task answers 200; the row
\* then carries the body's title and completed (whether or not they were
\* the stored ones) with its id and created_at as before, every other row
\* is as before, and the answer is the stored row.
C5_FullUpdate ==
  /\ (req.op = "put" /\ UpdateTaskValid(req.body) /\ req.id \in RowIds(prev))
       => resp.status = 200
  /\ (req.op = "put" /\ resp.status = 200)
       => /\ req.id \in RowIds(prev) /\ req.id \in RowIds(tasks)
          /\ TheRow(tasks, req.id).title = req.body.title.val[1]
          /\ TheRow(tasks, req.id).completed = req.body.completed.val
          /\ TheRow(tasks, req.id).created_at = TheRow(prev, req.id).created_at
          /\ RowIds(tasks) = RowIds(prev)
          /\ Others(tasks, req.id) = Others(prev, req.id)
          /\ resp.body = <<TheRow(tasks, req.id)>>

C5_Witness ==
  /\ req.op = "put" /\ resp.status = 200
  /\ tasks = prev
  /\ \E r \in Others(tasks, req.id) :
        r.title # TheRow(tasks, req.id).title
        /\ r.completed # TheRow(tasks, req.id).completed

\* C8: after a POST that answered 200, with no request since, GET of the
\* id it returned answers 200 with a task equal in id, title, completed
\* and created_at to the one the POST returned.
C8_RoundTrip ==
  (req.op = "create" /\ resp.status = 200)
  => /\ Len(resp.body) = 1
     /\ GetReply(tasks, resp.body[1].id) = Reply(200, resp.body)

C8_Witness ==
  /\ req.op = "create" /\ resp.status = 200
  /\ Cardinality(tasks) = 2

C1_NotFoundOnceDeleted ==
  \A id \in Ids :
    (id \notin created \/ id \in deleted) => GetReply(tasks, id).status = NotFound

\* C1 (amended): GET of an id answers 404 whenever no create returned that
\* id, or a delete of that id has succeeded and no create has returned the
\* id again since; so it does right after a successful DELETE of the id.
C1_NotFoundUntilReissued ==
  /\ \A id \in Ids :
       (id \notin created \/ id \in gone) => GetReply(tasks, id) = Reply(NotFound, <<>>)
  /\ (req.op = "delete" /\ resp.status = 200)
       => GetReply(tasks, req.id) = Reply(NotFound, <<>>)

C1_Witness ==
  /\ req.op = "delete" /\ resp.status = 200
  /\ req.id \in gone
  /\ tasks # {}

\* ---------------------------------------------- properties under SpecList
Skip(offset) == IF offset < 0 THEN 0 ELSE offset
Keep(limit) == IF limit < 0 THEN 0 ELSE limit
Matching(T, status) == IF status = None THEN T ELSE {r \in T : r.completed = status}
Before(F, x) == Cardinality({r \in F : r.created_at[1] < x.created_at[1]})
UpTo(F, x) == Cardinality({r \in F : r.created_at[1] <= x.created_at[1]})

\* body is what is left of some arrangement of F in non-decreasing
\* created_at after skipping the first skip rows and keeping the next keep.
SliceOfSorted(body, F, skip, keep) ==
  LET n == Cardinality(F)
      avail == IF n > skip THEN n - skip ELSE 0
  IN  /\ Len(body) = IF keep < avail THEN keep ELSE avail
      /\ \A i \in 1..Len(body) :
           /\ body[i] \in F
           /\ Before(F, body[i]) < skip + i
           /\ skip + i <= UpTo(F, body[i])
           /\ \A j \in 1..Len(body) : body[i] = body[j] => i = j

\* C6 (as claimed): an accepted listing is the rows with completed equal
\* to status (all rows when status is omitted), in non-decreasing
\* created_at, less the first offset, cut to the next limit.
C6_ListIsFilterSortSlice ==
  (req.op = "list" /\ resp.status = 200)
  => SliceOfSorted(resp.body, Matching(tasks, req.status),
                   Skip(req.offset), Keep(req.limit))

\* C7 (as claimed): a listing with limit above 20 is refused and touches
\* nothing, and every accepted listing holds at most 20 tasks.
C7_AtMostTwenty ==
  req.op = "list"
  => /\ req.limit > MaxLimit => resp.status = 422 /\ resp.body = <<>>
     /\ resp.status = 200 => Len(resp.body) <= MaxLimit

\* ----------------------------------------------- properties under SpecPut
BothPutsDone ==
  /\ \A w \in Workers : pc[w] = "done" /\ sess[w].status = 200
  /\ \A w, v \in Workers : sess[w].id = sess[v].id

\* C9 (as claimed): when two PUTs of one id have both completed, the row's
\* title and completed are the body of the request that committed last,
\* never the title of one request with the completed of the other.
C9_LastWriterWins ==
  BothPutsDone
  => LET last == sess[commits[Len(commits)]]
         row == TheRow(tasks, last.id)
     IN  row.title = last.title /\ row.completed = Some(last.completed)
====
